---------------------------- MODULE Spec2Model ----------------------------
(***************************************************************************)
(* A model of the codeowners GitHub action (dfinity-lab/codeowners).        *)
(*                                                                         *)
(* The pure functions of the action (the FileUnderReview constructor,      *)
(* parseCodeOwnersContent, getFileOwners, createCommentBody) are operators *)
(* over TLC strings, computed the way the TypeScript computes them.  The   *)
(* orchestration (run, getTeamMembers, the entry point of index.ts) is a   *)
(* state machine with one action per await point of run.                   *)
(***************************************************************************)
EXTENDS Integers, Sequences, FiniteSets, TLC

(***************************************************************************)
(* Bounds of the model.                                                    *)
(***************************************************************************)
\* Longest CODEOWNERS text handed to parseCodeOwnersContent on its own.
MaxContentLen == 5
\* Longest rule table handed to getFileOwners on its own.
MaxRules == 2
\* Longest file list handed to createCommentBody on its own.
MaxFiles == 2
\* Longest file list in which every section of the comment is looked at.
MaxSectionFiles == 3
\* Most reviews submitted on the pull request.
MaxReviews == 2
\* Most comments written on the pull request by people.
MaxUserComments == 1

(***************************************************************************)
(* Strings.  TLC evaluates Len, Head, Tail, SubSeq and \o on strings.      *)
(***************************************************************************)
RECURSIVE StringsUpTo(_, _)
\* Every string of at most n characters over the characters in chars.
StringsUpTo(chars, n) ==
  IF n = 0 THEN {""}
  ELSE {""} \cup {c \o s : c \in chars, s \in StringsUpTo(chars, n - 1)}

\* The characters String.prototype.trim and the regular expression \s treat
\* as white space, as far as they occur in the model.
WhiteSpace == {" ", "\t", "\r", "\n"}

Range(seq) == {seq[i] : i \in 1..Len(seq)}

RECURSIVE SeqsUpTo(_, _)
\* Every sequence of at most n elements of S.
SeqsUpTo(S, n) ==
  IF n = 0 THEN {<<>>}
  ELSE {<<>>} \cup {<<x>> \o s : x \in S, s \in SeqsUpTo(S, n - 1)}

RECURSIVE split(_, _)
\* String.prototype.split(sep) for a one-character separator: the pieces
\* between the separators, empty pieces included.
split(str, sep) ==
  IF \A i \in 1..Len(str) : SubSeq(str, i, i) # sep THEN <<str>>
  ELSE LET k == CHOOSE i \in 1..Len(str) :
                  /\ SubSeq(str, i, i) = sep
                  /\ \A j \in 1..(i - 1) : SubSeq(str, j, j) # sep
       IN  <<SubSeq(str, 1, k - 1)>> \o split(SubSeq(str, k + 1, Len(str)), sep)

RECURSIVE join(_, _)
\* Array.prototype.join(sep).
join(strs, sep) ==
  IF strs = <<>> THEN ""
  ELSE IF Len(strs) = 1 THEN strs[1]
  ELSE strs[1] \o sep \o join(Tail(strs), sep)

RECURSIVE trimStart(_)
trimStart(str) ==
  IF str # "" /\ Head(str) \in WhiteSpace THEN trimStart(Tail(str)) ELSE str

RECURSIVE trimEnd(_)
trimEnd(str) ==
  IF str # "" /\ SubSeq(str, Len(str), Len(str)) \in WhiteSpace
  THEN trimEnd(SubSeq(str, 1, Len(str) - 1))
  ELSE str

\* String.prototype.trim.
trim(str) == trimEnd(trimStart(str))

RECURSIVE splitWhiteSpace(_)
\* String.prototype.split(/\s+/): the pieces between maximal runs of white
\* space; a leading or trailing run leaves an empty piece, and the empty
\* string gives one empty piece.
splitWhiteSpace(str) ==
  IF \A i \in 1..Len(str) : SubSeq(str, i, i) \notin WhiteSpace THEN <<str>>
  ELSE LET k == CHOOSE i \in 1..Len(str) :
                  /\ SubSeq(str, i, i) \in WhiteSpace
                  /\ \A j \in 1..(i - 1) : SubSeq(str, j, j) \notin WhiteSpace
       IN  <<SubSeq(str, 1, k - 1)>>
             \o splitWhiteSpace(trimStart(SubSeq(str, k, Len(str))))

\* String.prototype.includes for a one-character needle.
includes(str, ch) == \E i \in 1..Len(str) : SubSeq(str, i, i) = ch

\* String.prototype.replace(ch, '') for a one-character string pattern: the
\* FIRST occurrence of ch is removed, wherever it is; the rest is kept.
replaceFirst(str, ch) ==
  IF ~includes(str, ch) THEN str
  ELSE LET k == CHOOSE i \in 1..Len(str) :
                  /\ SubSeq(str, i, i) = ch
                  /\ \A j \in 1..(i - 1) : SubSeq(str, j, j) # ch
       IN  SubSeq(str, 1, k - 1) \o SubSeq(str, k + 1, Len(str))


(***************************************************************************)
(* file_under_review.ts                                                    *)
(***************************************************************************)
\* enum FileApprovalState.
NoOwners == "NoOwners"
Approved == "Approved"
Pending == "Pending"
Unapprovable == "Unapprovable"
FileApprovalState == {NoOwners, Approved, Pending, Unapprovable}

\* The constructor with its second and third tests exchanged: an approval by
\* an owner is looked at before the reviewers are.
FileUnderReviewApprovalFirst(path, approvers, owners, reviewers) ==
  LET reviewerIntersection == {user \in reviewers : user \in Range(owners)}
      approverIntersection == {user \in approvers : user \in Range(owners)}
      approval ==
        IF Len(owners) = 0 THEN NoOwners
        ELSE IF Cardinality(approverIntersection) > 0 THEN Approved
        ELSE IF Cardinality(reviewerIntersection) = 0 THEN Unapprovable
        ELSE Pending
  IN  [path |-> path, approval |-> approval,
       approvers |-> approvers, owners |-> owners]

\* new FileUnderReview(path, approvers, owners, reviewers).  owners is a
\* JavaScript Set, here the sequence of its elements in insertion order
\* (no element twice); approvers and reviewers are only asked for
\* membership, so they are sets.  The object keeps path, approval, approvers
\* and owners; reviewers is not kept.
FileUnderReview(path, approvers, owners, reviewers) ==
  LET reviewerIntersection == {user \in reviewers : user \in Range(owners)}
      approverIntersection == {user \in approvers : user \in Range(owners)}
      approval ==
        IF Len(owners) = 0 THEN NoOwners
        ELSE IF Cardinality(reviewerIntersection) = 0 THEN Unapprovable
        ELSE IF Cardinality(approverIntersection) > 0 THEN Approved
        ELSE Pending
  IN  [path |-> path, approval |-> approval,
       approvers |-> approvers, owners |-> owners]

\* ownersString without the test for an approver: no owner is in bold.
ownersStringNoBold(file) ==
  join([i \in 1..Len(file.owners) |-> file.owners[i]], ", ")

\* FileUnderReview.ownersString: the owners in insertion order, joined by
\* ', ', an owner who approved in bold.
ownersString(file) ==
  join([i \in 1..Len(file.owners) |->
          IF file.owners[i] \in file.approvers
          THEN "**" \o file.owners[i] \o "**"
          ELSE file.owners[i]],
       ", ")

\* The grave accent (U+0060) that opens and closes a Markdown code span.  A
\* TLA+ string cannot hold that character, so the apostrophe, which the
\* action never writes, stands for it.
CodeSpanMark == "'"

\* FileUnderReview.comment.
comment(file) ==
  CASE file.approval = NoOwners ->
         "&check; " \o CodeSpanMark \o file.path \o CodeSpanMark
           \o ": File has no owners, no approval required"
    [] file.approval = Approved ->
         "&check; " \o CodeSpanMark \o file.path \o CodeSpanMark
           \o ": " \o ownersString(file)
    [] file.approval = Pending ->
         "&cross; " \o CodeSpanMark \o file.path \o CodeSpanMark
           \o ": " \o ownersString(file)
    [] file.approval = Unapprovable ->
         "&cross; " \o CodeSpanMark \o file.path \o CodeSpanMark
           \o ": " \o ownersString(file)

(***************************************************************************)
(* main.ts: constants                                                      *)
(***************************************************************************)
APPROVED == "APPROVED"
COMMENT_HEADER == "<!-- codeowners comment header -->"
GHOST == "@ghost"
authorAllowList == {"nikclayton-dfinity", "nomeata"}

(***************************************************************************)
(* main.ts: parseCodeOwnersContent                                         *)
(***************************************************************************)

\* The filter of parseCodeOwnersContent: the line is not the empty string
\* and its first character is not '#'.  The line is tested as it is, before
\* it is trimmed.
keepLine(line) == line # "" /\ Head(line) # "#"

\* The map of parseCodeOwnersContent: trim, split on runs of white space,
\* first piece the path, the others the owners.
toRule(line) ==
  LET fields == splitWhiteSpace(trim(line))
  IN  [path |-> fields[1], owners |-> Tail(fields)]

parseCodeOwnersContent(content) ==
  LET lines == SelectSeq(split(content, "\n"), keepLine)
  IN  [i \in 1..Len(lines) |-> toRule(lines[i])]

(***************************************************************************)
(* The pattern matcher: ignore().add(pattern).ignores(filename) of the     *)
(* 'ignore' package (gitignore rules), for one pattern and the path of a   *)
(* file relative to the repository root.  Patterns are made of literal     *)
(* characters, '/', and '*'; '**', '?', '[', '\' and upper case are not   *)
(* modelled.                                                               *)
(***************************************************************************)
RECURSIVE GlobMatch(_, _)
\* One path segment against one pattern segment: '*' stands for any run of
\* characters other than '/', every other character for itself.
GlobMatch(glob, name) ==
  IF glob = "" THEN name = ""
  ELSE IF Head(glob) = "*"
    THEN \/ GlobMatch(Tail(glob), name)
         \/ name # "" /\ Head(name) # "/" /\ GlobMatch(glob, Tail(name))
  ELSE name # "" /\ Head(name) = Head(glob) /\ GlobMatch(Tail(glob), Tail(name))

\* Whether the single pattern ignores filename.  The empty pattern and a
\* pattern starting with '#' add no rule; a pattern starting with '!' only
\* un-ignores.  A pattern with a '/' that is not its last character is
\* anchored at the root and matched segment by segment; otherwise it is
\* matched against one path segment at any depth.  A pattern ending in '/'
\* matches directories only.  A path is ignored when the pattern matches it
\* or one of its parent directories.
ignores(pattern, filename) ==
  LET len      == Len(pattern)
      dirOnly  == SubSeq(pattern, len, len) = "/"
      anchored == includes(SubSeq(pattern, 1, len - 1), "/")
      noLead   == IF Head(pattern) = "/" THEN Tail(pattern) ELSE pattern
      core     == IF dirOnly /\ noLead # ""
                  THEN SubSeq(noLead, 1, Len(noLead) - 1) ELSE noLead
      segs     == split(core, "/")
      names    == split(filename, "/")
      n        == Len(names)
      EntryMatches(k) ==
        /\ dirOnly => k < n
        /\ IF anchored
           THEN /\ Len(segs) = k
                /\ \A i \in 1..k : GlobMatch(segs[i], names[i])
           ELSE GlobMatch(segs[1], names[k])
  IN  /\ pattern # ""
      /\ Head(pattern) \notin {"#", "!"}
      /\ core # ""
      /\ \E k \in 1..n : EntryMatches(k)

(***************************************************************************)
(* main.ts: getFileOwners                                                  *)
(***************************************************************************)
\* Array.prototype.reverse (on the copy made by slice).
reverse(seq) == [i \in 1..Len(seq) |-> seq[Len(seq) + 1 - i]]

\* The last segment of a path, and the path of its parent directory.
baseName(path) == LET names == split(path, "/") IN names[Len(names)]
dirName(path) ==
  LET names == split(path, "/") IN join(SubSeq(names, 1, Len(names) - 1), "/")

\* getFileOwners with the entries tested against the base name of the file
\* instead of its path.
getFileOwnersBaseName(codeowners, filename) ==
  LET entries == reverse(codeowners)
      hits    == {i \in 1..Len(entries) :
                    ignores(entries[i].path, baseName(filename))}
  IN  IF hits = {} THEN <<>>
      ELSE LET match == entries[CHOOSE i \in hits : \A j \in hits : i <= j]
           IN  IF Len(match.owners) > 0 /\ match.owners[1] = GHOST THEN <<>>
               ELSE [i \in 1..Len(match.owners) |->
                       replaceFirst(match.owners[i], "@")]

\* getFileOwners with the entries tested against the top-level segment of
\* the path of the file.
getFileOwnersTopLevel(codeowners, filename) ==
  LET entries == reverse(codeowners)
      hits    == {i \in 1..Len(entries) :
                    ignores(entries[i].path, split(filename, "/")[1])}
  IN  IF hits = {} THEN <<>>
      ELSE LET match == entries[CHOOSE i \in hits : \A j \in hits : i <= j]
           IN  IF Len(match.owners) > 0 /\ match.owners[1] = GHOST THEN <<>>
               ELSE [i \in 1..Len(match.owners) |->
                       replaceFirst(match.owners[i], "@")]

\* getFileOwners without the reverse: the first matching entry wins.
getFileOwnersFirstWins(codeowners, filename) ==
  LET entries == codeowners
      hits    == {i \in 1..Len(entries) : ignores(entries[i].path, filename)}
  IN  IF hits = {} THEN <<>>
      ELSE LET match == entries[CHOOSE i \in hits : \A j \in hits : i <= j]
           IN  IF Len(match.owners) > 0 /\ match.owners[1] = GHOST THEN <<>>
               ELSE [i \in 1..Len(match.owners) |->
                       replaceFirst(match.owners[i], "@")]

\* getFileOwners without the test for '@ghost'.
getFileOwnersNoGhost(codeowners, filename) ==
  LET entries == reverse(codeowners)
      hits    == {i \in 1..Len(entries) : ignores(entries[i].path, filename)}
  IN  IF hits = {} THEN <<>>
      ELSE LET match == entries[CHOOSE i \in hits : \A j \in hits : i <= j]
           IN  [i \in 1..Len(match.owners) |->
                  replaceFirst(match.owners[i], "@")]

\* getFileOwners(codeowners, filename): the entries in reverse, find the
\* first one that ignores filename; none, or '@ghost' as its first owner,
\* gives []; otherwise its owners, each with its first '@' replaced by ''.
getFileOwners(codeowners, filename) ==
  LET entries == reverse(codeowners)
      hits    == {i \in 1..Len(entries) : ignores(entries[i].path, filename)}
  IN  IF hits = {} THEN <<>>
      ELSE LET match == entries[CHOOSE i \in hits : \A j \in hits : i <= j]
           IN  IF Len(match.owners) > 0 /\ match.owners[1] = GHOST THEN <<>>
               ELSE [i \in 1..Len(match.owners) |->
                       replaceFirst(match.owners[i], "@")]

(***************************************************************************)
(* main.ts: createCommentBody                                              *)
(***************************************************************************)
\* files.filter(by state).map(file => file.comment)
commentsOf(files, states) ==
  LET kept == SelectSeq(files, LAMBDA file : file.approval \in states)
  IN  [i \in 1..Len(kept) |-> comment(kept[i])]

\* The header of every comment body.
header == COMMENT_HEADER \o "\n**Review status**\n\n"

\* createCommentBody without the early return for a list with nothing left
\* to approve: it goes on to the details block.
createCommentBodyNoShortCut(files) ==
  LET filesUnapprovable == commentsOf(files, {Unapprovable})
      unapprovableComment ==
        IF Len(filesUnapprovable) > 0
        THEN "PR can not be approved, as these files can not be approved by the current reviewers:\n\n"
               \o join(filesUnapprovable, "\\\n") \o "\n\n"
        ELSE ""
      filesPending == commentsOf(files, {Pending})
      pendingComment ==
        IF Len(filesPending) > 0
        THEN "Waiting for approval\n\n"
               \o join(filesPending, "\\\n") \o "\n\n"
        ELSE ""
      filesApproved == commentsOf(files, {NoOwners, Approved})
      approvedComment ==
        IF Len(filesApproved) > 0
        THEN "\n<details>\n  <summary>Approved files</summary>\n    \n"
               \o join(filesApproved, "\\\n") \o "\n    \n</details>"
        ELSE ""
  IN  IF Len(files) = 0 THEN header \o "There are no files in the PR."
      ELSE header \o unapprovableComment \o pendingComment \o approvedComment

\* createCommentBody without the early return for an empty list.
createCommentBodyNoEmptyCase(files) ==
  LET filesUnapprovable == commentsOf(files, {Unapprovable})
      unapprovableComment ==
        IF Len(filesUnapprovable) > 0
        THEN "PR can not be approved, as these files can not be approved by the current reviewers:\n\n"
               \o join(filesUnapprovable, "\\\n") \o "\n\n"
        ELSE ""
      filesPending == commentsOf(files, {Pending})
      pendingComment ==
        IF Len(filesPending) > 0
        THEN "Waiting for approval\n\n"
               \o join(filesPending, "\\\n") \o "\n\n"
        ELSE ""
      filesApproved == commentsOf(files, {NoOwners, Approved})
      approvedComment ==
        IF Len(filesApproved) > 0
        THEN "\n<details>\n  <summary>Approved files</summary>\n    \n"
               \o join(filesApproved, "\\\n") \o "\n    \n</details>"
        ELSE ""
  IN  IF Len(filesUnapprovable) = 0 /\ Len(filesPending) = 0
        THEN header \o "All files in the PR are approved."
      ELSE header \o unapprovableComment \o pendingComment \o approvedComment

\* createCommentBody with the Pending section put before the Unapprovable
\* one.
createCommentBodyPendingFirst(files) ==
  LET filesUnapprovable == commentsOf(files, {Unapprovable})
      unapprovableComment ==
        IF Len(filesUnapprovable) > 0
        THEN "PR can not be approved, as these files can not be approved by the current reviewers:\n\n"
               \o join(filesUnapprovable, "\\\n") \o "\n\n"
        ELSE ""
      filesPending == commentsOf(files, {Pending})
      pendingComment ==
        IF Len(filesPending) > 0
        THEN "Waiting for approval\n\n"
               \o join(filesPending, "\\\n") \o "\n\n"
        ELSE ""
      filesApproved == commentsOf(files, {NoOwners, Approved})
      approvedComment ==
        IF Len(filesApproved) > 0
        THEN "\n<details>\n  <summary>Approved files</summary>\n    \n"
               \o join(filesApproved, "\\\n") \o "\n    \n</details>"
        ELSE ""
  IN  IF Len(files) = 0 THEN header \o "There are no files in the PR."
      ELSE IF Len(filesUnapprovable) = 0 /\ Len(filesPending) = 0
        THEN header \o "All files in the PR are approved."
      ELSE header \o pendingComment \o unapprovableComment \o approvedComment

\* createCommentBody(files): the header; for no file, or no file left to
\* approve, one sentence; otherwise the Unapprovable files, the Pending files
\* and, in a details block, the NoOwners and Approved files, each section
\* only when it has a file.
createCommentBody(files) ==
  LET filesUnapprovable == commentsOf(files, {Unapprovable})
      unapprovableComment ==
        IF Len(filesUnapprovable) > 0
        THEN "PR can not be approved, as these files can not be approved by the current reviewers:\n\n"
               \o join(filesUnapprovable, "\\\n") \o "\n\n"
        ELSE ""
      filesPending == commentsOf(files, {Pending})
      pendingComment ==
        IF Len(filesPending) > 0
        THEN "Waiting for approval\n\n"
               \o join(filesPending, "\\\n") \o "\n\n"
        ELSE ""
      filesApproved == commentsOf(files, {NoOwners, Approved})
      approvedComment ==
        IF Len(filesApproved) > 0
        THEN "\n<details>\n  <summary>Approved files</summary>\n    \n"
               \o join(filesApproved, "\\\n") \o "\n    \n</details>"
        ELSE ""
  IN  IF Len(files) = 0 THEN header \o "There are no files in the PR."
      ELSE IF Len(filesUnapprovable) = 0 /\ Len(filesPending) = 0
        THEN header \o "All files in the PR are approved."
      ELSE header \o unapprovableComment \o pendingComment \o approvedComment

\* String.prototype.includes.
includesStr(str, needle) ==
  \E i \in 1..(Len(str) - Len(needle) + 1) :
    SubSeq(str, i, i + Len(needle) - 1) = needle

\* comment.body && comment.body.includes(COMMENT_HEADER)
includesHeader(body) == body # "" /\ includesStr(body, COMMENT_HEADER)

(***************************************************************************)
(* The state.                                                              *)
(***************************************************************************)
VARIABLES
  \* A pure function applied on its own: its arguments and its result.  For
  \* run, input is the event its calls are made for, or <<>> for any event.
  input, output,
  \* GitHub: the pull request and the organisation.
  prAuthor,            \* pull_request.user.login
  content,             \* the text of the CODEOWNERS file
  prFiles,             \* the file names of the pull request, in order
  requestedReviewers,  \* pull_request.requested_reviewers, as logins
  requestedTeams,      \* pull_request.requested_teams, as slugs
  reviews,             \* the reviews of the pull request, oldest first
  members,             \* team slug -> the logins of its members, in order
  comments,            \* the comments of the pull request, oldest first
  \* The node process: the module-level Map of main.ts.
  teamCache,
  \* One call of run.
  pc,                  \* where run is
  outcome,             \* how the last call of run ended
  failed,              \* core.setFailed was called
  codeOwners, files, reviewers, approvingReviewers, filesUnderReview,
  teamIdx,             \* position in pull_request.requested_teams
  fileIdx,             \* position in files
  ownerIdx,            \* position in fileOwners
  expandedFileOwners,
  commentBody, previousComment,
  \* What this call of run did at its boundary, for the claims.
  log,                 \* the boundary calls it made, in order
  served,              \* team slug -> the member lists getTeamMembers returned
  \* What somebody who follows the pull request has seen of the calls of run
  \* that ran to their end: the result of the last one and of one before it.
  observed

pureVars == <<input, output>>
gitHubVars == <<prAuthor, content, prFiles, requestedReviewers, requestedTeams,
                reviews, members, comments>>
localVars == <<codeOwners, files, reviewers, approvingReviewers,
               filesUnderReview, teamIdx, fileIdx, ownerIdx,
               expandedFileOwners, commentBody, previousComment>>
runVars == <<pc, outcome, failed, localVars, log, served>>
vars == <<pureVars, observed, gitHubVars, teamCache, runVars>>

(***************************************************************************)
(* The values the model draws from.                                        *)
(***************************************************************************)
Users == {"bar", "fred", "baz"}
TeamSlugs == {"team", "ops"}
\* A review whose user is null or undefined.
NoUser == ""
ReviewChoices ==
  { [user |-> "bar", state |-> APPROVED],
    [user |-> "bar", state |-> "CHANGES_REQUESTED"],
    [user |-> NoUser, state |-> APPROVED] }
EventNames == {"pull_request", "pull_request_review", "push"}
Authors == {"nomeata", "mallory"}

\* The member lists a team has over time: a team only loses members.
MemberChoices ==
  [team |-> {<<"fred", "baz">>, <<"fred">>}, ops |-> {<<"bar">>}]

\* The CODEOWNERS file of the repository.  Its second line holds only
\* blanks and its third is an indented comment.
CodeOwnersText ==
  "# owners\n  \n  # teams\n/foo @bar @org/team\nfoo/ @org/team @fred\nlib/ @org/ops @org/team\n*.md @ghost"

PrFileChoices ==
  { <<>>, <<"README.md", "foo">>, <<"foo/bar/baz", "lib/a.ts">> }

UserCommentBodies == {"LGTM", "> " \o COMMENT_HEADER \o "\nwhat is this?"}

(***************************************************************************)
(* Initial states.                                                         *)
(***************************************************************************)
\* The result of a pure function before and after it is applied.
NotCalled == [called |-> FALSE, value |-> <<>>]
Returned(value) == [called |-> TRUE, value |-> value]

\* What was seen of a call of run: how many reviews the pull request had,
\* and the approval state run gave each file, in the order of the files.
\* Nothing was seen yet.
NoObservation == [seen |-> 0, approvals |-> <<>>]

\* No call of run was made in this process yet, and none was looked at.
ProcessInit ==
  /\ observed = [before |-> NoObservation, now |-> NoObservation]
  /\ teamCache = <<>>
  /\ pc = "idle"
  /\ outcome = "none"
  /\ failed = FALSE
  /\ codeOwners = <<>>
  /\ files = <<>>
  /\ reviewers = {}
  /\ approvingReviewers = {}
  /\ filesUnderReview = <<>>
  /\ teamIdx = 1
  /\ fileIdx = 1
  /\ ownerIdx = 1
  /\ expandedFileOwners = <<>>
  /\ commentBody = ""
  /\ previousComment = 0
  /\ log = <<>>
  /\ served = [slug \in TeamSlugs |-> {}]

\* A pull request that was just opened: no review, no comment.
Init ==
  /\ input = <<>>
  /\ output = NotCalled
  /\ prAuthor \in Authors
  /\ content = CodeOwnersText
  /\ prFiles \in PrFileChoices
  /\ requestedReviewers = {"baz"}
  /\ requestedTeams \in {<<>>, <<"team">>}
  /\ reviews = <<>>
  /\ members = [team |-> <<"fred", "baz">>, ops |-> <<"bar">>]
  /\ comments = <<>>
  /\ ProcessInit

(***************************************************************************)
(* GitHub: what happens on the pull request apart from the action.         *)
(* Reviews and comments are read by run in one listing each, so a review   *)
(* or comment that arrives during a call of run is one that arrived before *)
(* or after it; they are added while no process of the action is alive,    *)
(* and a review or comment that repeats an earlier one word for word is    *)
(* left out.  A team can change at any time, also while run is under way.  *)
(***************************************************************************)
SubmitReview ==
  /\ pc = "idle"
  /\ Len(reviews) < MaxReviews
  /\ \E review \in ReviewChoices \ Range(reviews) :
       reviews' = Append(reviews, review)
  /\ UNCHANGED <<pureVars, observed, prAuthor, content, prFiles, requestedReviewers,
                 requestedTeams, members, comments, teamCache, runVars>>

\* The id a new comment gets.
NewId == Len(comments) + 1

UserComment ==
  /\ pc = "idle"
  /\ Cardinality({i \in 1..Len(comments) : comments[i].by = "user"})
       < MaxUserComments
  /\ \E body \in UserCommentBodies \ {comments[i].body : i \in 1..Len(comments)} :
       comments' = Append(comments, [id |-> NewId, by |-> "user", body |-> body])
  /\ UNCHANGED <<pureVars, observed, prAuthor, content, prFiles, requestedReviewers,
                 requestedTeams, reviews, members, teamCache, runVars>>

ChangeMembers ==
  /\ \E slug \in TeamSlugs : \E list \in MemberChoices[slug] :
       /\ Len(list) < Len(members[slug])
       /\ members' = [members EXCEPT ![slug] = list]
  /\ UNCHANGED <<pureVars, observed, prAuthor, content, prFiles, requestedReviewers,
                 requestedTeams, reviews, comments, teamCache, runVars>>

(***************************************************************************)
(* index.ts and main.ts: run                                               *)
(***************************************************************************)
\* A boundary call, as the log keeps it.
Call(name, arg, ok) == [call |-> name, arg |-> arg, ok |-> ok]

\* Set.prototype.add on a Set kept as the sequence of its elements.
add(set, x) == IF x \in Range(set) THEN set ELSE Append(set, x)

RECURSIVE addAll(_, _)
addAll(set, xs) ==
  IF xs = <<>> THEN set ELSE addAll(add(set, Head(xs)), Tail(xs))

\* The node process ends and, on the next event, a new one is started:
\* main.ts is loaded again, teamCache is a new Map, and nothing of the calls
\* of run in the old process is left.
NewProcess ==
  /\ pc = "returned"
  /\ teamCache' = <<>>
  /\ pc' = "idle"
  /\ outcome' = "none"
  /\ failed' = FALSE
  /\ codeOwners' = <<>>
  /\ files' = <<>>
  /\ reviewers' = {}
  /\ approvingReviewers' = {}
  /\ filesUnderReview' = <<>>
  /\ teamIdx' = 1
  /\ fileIdx' = 1
  /\ ownerIdx' = 1
  /\ expandedFileOwners' = <<>>
  /\ commentBody' = ""
  /\ previousComment' = 0
  /\ log' = <<>>
  /\ served' = [slug \in TeamSlugs |-> {}]
  /\ UNCHANGED <<pureVars, observed, gitHubVars>>

\* What a call of run starts from: its locals, and the record of what it
\* did.
FreshCall ==
  /\ codeOwners' = <<>>
  /\ files' = <<>>
  /\ reviewers' = {}
  /\ approvingReviewers' = {}
  /\ filesUnderReview' = <<>>
  /\ teamIdx' = 1
  /\ fileIdx' = 1
  /\ ownerIdx' = 1
  /\ expandedFileOwners' = <<>>
  /\ commentBody' = ""
  /\ previousComment' = 0
  /\ log' = <<>>
  /\ served' = [slug \in TeamSlugs |-> {}]

\* context.eventName of a call of run: any event, unless the behaviour is
\* one in which every call is made for the event input names.
Triggers == IF DOMAIN input = {} THEN EventNames ELSE {input.eventName}

\* The start of run without the default case of the switch: an unexpected
\* event is treated like a pull_request event.
StartRunNoDefault ==
  /\ pc \in {"idle", "returned"}
  /\ FreshCall
  /\ \E eventName \in Triggers :
       \/ /\ prAuthor \notin authorAllowList
          /\ failed' = FALSE
          /\ outcome' = "skipped"
          /\ pc' = "returned"
       \/ /\ prAuthor \in authorAllowList
          /\ failed' = FALSE
          /\ outcome' = "none"
          /\ pc' = "getContent"
  /\ UNCHANGED <<pureVars, observed, gitHubVars, teamCache>>

\* The start of run without the test of the author: run goes on for every
\* author.
StartRunNoAllowList ==
  /\ pc \in {"idle", "returned"}
  /\ FreshCall
  /\ \E eventName \in Triggers :
       \/ /\ eventName \notin {"pull_request", "pull_request_review"}
          /\ failed' = TRUE
          /\ outcome' = "failed"
          /\ pc' = "returned"
       \/ /\ eventName \in {"pull_request", "pull_request_review"}
          /\ failed' = FALSE
          /\ outcome' = "none"
          /\ pc' = "getContent"
  /\ UNCHANGED <<pureVars, observed, gitHubVars, teamCache>>

\* index.ts calls run; run looks at the event and at the author of the
\* pull request, and asks for the CODEOWNERS file.
StartRun ==
  /\ pc \in {"idle", "returned"}
  /\ FreshCall
  /\ \E eventName \in Triggers :
       \/ /\ eventName \notin {"pull_request", "pull_request_review"}
          /\ failed' = TRUE
          /\ outcome' = "failed"
          /\ pc' = "returned"
       \/ /\ eventName \in {"pull_request", "pull_request_review"}
          /\ prAuthor \notin authorAllowList
          /\ failed' = FALSE
          /\ outcome' = "skipped"
          /\ pc' = "returned"
       \/ /\ eventName \in {"pull_request", "pull_request_review"}
          /\ prAuthor \in authorAllowList
          /\ failed' = FALSE
          /\ outcome' = "none"
          /\ pc' = "getContent"
  /\ UNCHANGED <<pureVars, observed, gitHubVars, teamCache>>

\* The promise run awaits is rejected: run throws, the catch of index.ts
\* calls core.setFailed, and nothing else is done.
Throws(name, arg) ==
  /\ log' = Append(log, Call(name, arg, FALSE))
  /\ failed' = TRUE
  /\ outcome' = "failed"
  /\ pc' = "returned"

\* getCodeOwnersMap: the file is fetched and parsed; then run asks for the
\* files of the pull request.
GetContent ==
  /\ pc = "getContent"
  /\ \/ /\ codeOwners' = parseCodeOwnersContent(content)
        /\ log' = Append(log, Call("getContent", "", TRUE))
        /\ pc' = "listFiles"
        /\ UNCHANGED <<outcome, failed>>
     \/ /\ Throws("getContent", "")
        /\ UNCHANGED codeOwners
  /\ UNCHANGED <<pureVars, observed, gitHubVars, teamCache, files, reviewers,
                 approvingReviewers, filesUnderReview, teamIdx, fileIdx,
                 ownerIdx, expandedFileOwners, commentBody, previousComment,
                 served>>

\* The files are listed; reviewers starts as the requested reviewers, and
\* run turns to the requested teams, or to the reviews when there is none.
ListFiles ==
  /\ pc = "listFiles"
  /\ \/ /\ files' = prFiles
        /\ reviewers' = requestedReviewers
        /\ log' = Append(log, Call("listFiles", "", TRUE))
        /\ pc' = IF Len(requestedTeams) > 0 THEN "requestedTeams"
                 ELSE "listReviews"
        /\ UNCHANGED <<outcome, failed>>
     \/ /\ Throws("listFiles", "")
        /\ UNCHANGED <<files, reviewers>>
  /\ UNCHANGED <<pureVars, observed, gitHubVars, teamCache, codeOwners,
                 approvingReviewers, filesUnderReview, teamIdx, fileIdx,
                 ownerIdx, expandedFileOwners, commentBody, previousComment,
                 served>>

\* getTeamMembers without teamCache.set: the members are looked up and
\* returned, and the cache stays as it was.
getTeamMembersNoSet(team_slug, result) ==
  /\ IF team_slug \notin DOMAIN teamCache
     THEN /\ result = members[team_slug]
          /\ log' = Append(log, Call("listMembersInOrg", team_slug, TRUE))
     ELSE /\ result = teamCache[team_slug]
          /\ UNCHANGED log
  /\ UNCHANGED teamCache
  /\ served' = [served EXCEPT ![team_slug] = @ \cup {result}]

\* getTeamMembers(repo, octokit, team_slug) returning result: from teamCache
\* when the slug is in it, otherwise looked up with listMembersInOrg and
\* put into teamCache.
getTeamMembers(team_slug, result) ==
  /\ IF team_slug \notin DOMAIN teamCache
     THEN /\ result = members[team_slug]
          /\ teamCache' = (team_slug :> result) @@ teamCache
          /\ log' = Append(log, Call("listMembersInOrg", team_slug, TRUE))
     ELSE /\ result = teamCache[team_slug]
          /\ UNCHANGED <<teamCache, log>>
  /\ served' = [served EXCEPT ![team_slug] = @ \cup {result}]

\* getTeamMembers when listMembersInOrg fails, with the failure caught and
\* dropped where the members are awaited: run goes on from where it was.
getTeamMembersCaught(team_slug) ==
  /\ team_slug \notin DOMAIN teamCache
  /\ log' = Append(log, Call("listMembersInOrg", team_slug, FALSE))
  /\ UNCHANGED <<pc, outcome, failed, teamCache, served>>

\* getTeamMembers when listMembersInOrg fails: nothing is cached.
getTeamMembersThrows(team_slug) ==
  /\ team_slug \notin DOMAIN teamCache
  /\ Throws("listMembersInOrg", team_slug)
  /\ UNCHANGED <<teamCache, served>>

\* One requested team is expanded into reviewers; after the last one run
\* asks for the reviews.
RequestedTeam ==
  /\ pc = "requestedTeams"
  /\ LET slug == requestedTeams[teamIdx]
     IN  \/ /\ \E result \in MemberChoices[slug] :
                 /\ getTeamMembers(slug, result)
                 /\ reviewers' = reviewers \cup Range(result)
            /\ teamIdx' = teamIdx + 1
            /\ pc' = IF teamIdx = Len(requestedTeams) THEN "listReviews"
                     ELSE "requestedTeams"
            /\ UNCHANGED <<outcome, failed>>
         \/ /\ getTeamMembersThrows(slug)
            /\ UNCHANGED <<reviewers, teamIdx>>
  /\ UNCHANGED <<pureVars, observed, gitHubVars, codeOwners, files, approvingReviewers,
                 filesUnderReview, fileIdx, ownerIdx, expandedFileOwners,
                 commentBody, previousComment>>

\* The loop over the reviews with reviewers.add in the else branch of the
\* test for APPROVED: a user is an approving reviewer or a reviewer.
reviewersOfOthers(revs) ==
  {revs[i].user : i \in {j \in 1..Len(revs) :
                           revs[j].user # NoUser /\ revs[j].state # APPROVED}}

\* The loop over the reviews with the state of the latest review of a user
\* deciding: an approving reviewer is a user whose last review is APPROVED.
approvingReviewersOfLatest(revs) ==
  {revs[i].user : i \in {j \in 1..Len(revs) :
                           /\ revs[j].user # NoUser
                           /\ revs[j].state = APPROVED
                           /\ \A k \in (j + 1)..Len(revs) :
                                revs[k].user # revs[j].user}}

\* The loop over the reviews: every user with a review is a reviewer, every
\* user with an APPROVED review an approving reviewer.
reviewersOf(revs) ==
  {revs[i].user : i \in {j \in 1..Len(revs) : revs[j].user # NoUser}}

approvingReviewersOf(revs) ==
  {revs[i].user : i \in {j \in 1..Len(revs) :
                           revs[j].user # NoUser /\ revs[j].state = APPROVED}}

\* The reviews are listed and gone through; run turns to the files.
ListReviews ==
  /\ pc = "listReviews"
  /\ \/ /\ reviewers' = reviewers \cup reviewersOf(reviews)
        /\ approvingReviewers' = approvingReviewersOf(reviews)
        /\ log' = Append(log, Call("listReviews", "", TRUE))
        /\ pc' = "files"
        /\ UNCHANGED <<outcome, failed>>
     \/ /\ Throws("listReviews", "")
        /\ UNCHANGED <<reviewers, approvingReviewers>>
  /\ UNCHANGED <<pureVars, observed, gitHubVars, teamCache, codeOwners, files,
                 filesUnderReview, teamIdx, fileIdx, ownerIdx,
                 expandedFileOwners, commentBody, previousComment, served>>

\* The owners of the file the loop is at.
fileOwners == getFileOwners(codeOwners, files[fileIdx])

\* One owner of the file is expanded: a name without '/' is a user, the
\* second '/'-separated piece of any other name is the slug of a team.
ExpandOwner ==
  /\ pc = "files"
  /\ fileIdx <= Len(files)
  /\ ownerIdx <= Len(fileOwners)
  /\ LET owner == fileOwners[ownerIdx]
         team_slug == split(owner, "/")[2]
     IN  \/ /\ ~includes(owner, "/")
            /\ expandedFileOwners' = add(expandedFileOwners, owner)
            /\ ownerIdx' = ownerIdx + 1
            /\ UNCHANGED <<pc, outcome, failed, teamCache, log, served>>
         \/ /\ includes(owner, "/")
            /\ \E result \in MemberChoices[team_slug] :
                 /\ getTeamMembers(team_slug, result)
                 /\ expandedFileOwners' = addAll(expandedFileOwners, result)
            /\ ownerIdx' = ownerIdx + 1
            /\ UNCHANGED <<pc, outcome, failed>>
         \/ /\ includes(owner, "/")
            /\ getTeamMembersThrows(team_slug)
            /\ UNCHANGED <<expandedFileOwners, ownerIdx>>
  /\ UNCHANGED <<pureVars, observed, gitHubVars, codeOwners, files, reviewers,
                 approvingReviewers, filesUnderReview, teamIdx, fileIdx,
                 commentBody, previousComment>>

\* All owners of the file are expanded: the file is classified and the loop
\* goes to the next file.
PushFile ==
  /\ pc = "files"
  /\ fileIdx <= Len(files)
  /\ ownerIdx > Len(fileOwners)
  /\ filesUnderReview' =
       Append(filesUnderReview,
              FileUnderReview(files[fileIdx], approvingReviewers,
                              expandedFileOwners, reviewers))
  /\ fileIdx' = fileIdx + 1
  /\ ownerIdx' = 1
  /\ expandedFileOwners' = <<>>
  /\ UNCHANGED <<pureVars, observed, gitHubVars, teamCache, pc, outcome, failed,
                 codeOwners, files, reviewers, approvingReviewers, teamIdx,
                 commentBody, previousComment, log, served>>

\* comments.find(comment => comment.body && comment.body.includes(
\* COMMENT_HEADER)), but the last such comment instead of the first.
findLastPrevious(listed) ==
  LET hits == {i \in 1..Len(listed) : includesHeader(listed[i].body)}
  IN  IF hits = {} THEN 0
      ELSE listed[CHOOSE i \in hits : \A j \in hits : i >= j].id

\* comments.find(comment => comment.body && comment.body.includes(
\* COMMENT_HEADER)): the id of the first such comment, 0 for undefined.
findPrevious(listed) ==
  LET hits == {i \in 1..Len(listed) : includesHeader(listed[i].body)}
  IN  IF hits = {} THEN 0
      ELSE listed[CHOOSE i \in hits : \A j \in hits : i <= j].id

\* What octokit.paginate(listComments, ..., (response, done) => ...) can
\* return: every page up to and including the first page with a comment that
\* holds the header, or every page when there is none.  The size of a page
\* is not known, so the listing may end at that comment or at any later one.
Listings ==
  LET hits == {i \in 1..Len(comments) : includesHeader(comments[i].body)}
  IN  IF hits = {} THEN {comments}
      ELSE LET first == CHOOSE i \in hits : \A j \in hits : i <= j
           IN  {SubSeq(comments, 1, last) : last \in first..Len(comments)}

\* Every file is classified: the body is made, the comments are listed and
\* the previous comment of the action is looked for.
ListComments ==
  /\ pc = "files"
  /\ fileIdx > Len(files)
  /\ commentBody' = createCommentBody(filesUnderReview)
  /\ \/ /\ \E listed \in Listings : previousComment' = findPrevious(listed)
        /\ log' = Append(log, Call("listComments", "", TRUE))
        /\ pc' = "upsert"
        /\ UNCHANGED <<outcome, failed>>
     \/ /\ Throws("listComments", "")
        /\ UNCHANGED previousComment
  /\ UNCHANGED <<pureVars, observed, gitHubVars, teamCache, codeOwners, files,
                 reviewers, approvingReviewers, filesUnderReview, teamIdx,
                 fileIdx, ownerIdx, expandedFileOwners, served>>

\* The previous comment is updated, or a comment is created when there is
\* none; run returns.
Upsert ==
  /\ pc = "upsert"
  /\ \/ /\ previousComment # 0
        /\ comments' =
             [i \in 1..Len(comments) |->
                IF comments[i].id = previousComment
                THEN [comments[i] EXCEPT !.body = commentBody]
                ELSE comments[i]]
        /\ log' = Append(log, Call("updateComment", ToString(previousComment), TRUE))
        /\ outcome' = "done"
        /\ pc' = "returned"
        /\ UNCHANGED failed
     \/ /\ previousComment # 0
        /\ Throws("updateComment", ToString(previousComment))
        /\ UNCHANGED comments
     \/ /\ previousComment = 0
        /\ comments' = Append(comments, [id |-> NewId, by |-> "action",
                                         body |-> commentBody])
        /\ log' = Append(log, Call("createComment", "", TRUE))
        /\ outcome' = "done"
        /\ pc' = "returned"
        /\ UNCHANGED failed
     \/ /\ previousComment = 0
        /\ Throws("createComment", "")
        /\ UNCHANGED comments
  /\ UNCHANGED <<pureVars, observed, prAuthor, content, prFiles, requestedReviewers,
                 requestedTeams, reviews, members, teamCache, localVars,
                 served>>

Next ==
  \/ SubmitReview
  \/ UserComment
  \/ ChangeMembers
  \/ NewProcess
  \/ StartRun
  \/ GetContent
  \/ ListFiles
  \/ RequestedTeam
  \/ ListReviews
  \/ ExpandOwner
  \/ PushFile
  \/ ListComments
  \/ Upsert

\* The action on a pull request, run any number of times.
Spec == Init /\ [][Next]_vars

\* The result of a call of run that ran to its end is looked at: the
\* approval state of each file, as the comment of the call shows it.
Observe ==
  /\ pc = "returned"
  /\ outcome = "done"
  /\ LET result == [seen |-> Len(reviews),
                    approvals |-> [i \in 1..Len(filesUnderReview) |->
                                     filesUnderReview[i].approval]]
     IN  /\ result # observed.now
         /\ observed' = [before |-> observed.now, now |-> result]
  /\ UNCHANGED <<pureVars, gitHubVars, teamCache, runVars>>

\* The action run again and again on a pull request on which nothing
\* changes but the reviews: the CODEOWNERS file, the files, the teams and the
\* requested reviewers stay as they are, and reviews are added.
InitReruns ==
  /\ input = <<>>
  /\ output = NotCalled
  /\ prAuthor = "nomeata"
  /\ content = CodeOwnersText
  /\ prFiles \in PrFileChoices \ {<<>>}
  /\ requestedReviewers = {"baz"}
  /\ requestedTeams \in {<<>>, <<"team">>}
  /\ reviews = <<>>
  /\ members \in {[team |-> list, ops |-> <<"bar">>] :
                    list \in MemberChoices["team"]}
  /\ comments = <<>>
  /\ ProcessInit

NextReruns ==
  \/ SubmitReview
  \/ NewProcess
  \/ StartRun
  \/ GetContent
  \/ ListFiles
  \/ RequestedTeam
  \/ ListReviews
  \/ ExpandOwner
  \/ PushFile
  \/ ListComments
  \/ Upsert
  \/ Observe

SpecReruns == InitReruns /\ [][NextReruns]_vars

\* The action on a pull request, run any number of times and every time for
\* the same event.
InitTrigger ==
  /\ input \in [eventName : EventNames]
  /\ output = NotCalled
  /\ prAuthor \in Authors
  /\ content = CodeOwnersText
  /\ prFiles = <<"README.md", "foo">>
  /\ requestedReviewers = {"baz"}
  /\ requestedTeams = <<"team">>
  /\ reviews = <<>>
  /\ members = [team |-> <<"fred", "baz">>, ops |-> <<"bar">>]
  /\ comments = <<>>
  /\ ProcessInit

SpecTrigger == InitTrigger /\ [][Next]_vars

(***************************************************************************)
(* The pure functions on their own: the arguments are drawn in the initial *)
(* state, one action applies the function.  Nothing runs on the pull       *)
(* request meanwhile.                                                      *)
(***************************************************************************)
Quiet ==
  /\ prAuthor = "nomeata"
  /\ content = CodeOwnersText
  /\ prFiles = <<>>
  /\ requestedReviewers = {}
  /\ requestedTeams = <<>>
  /\ reviews = <<>>
  /\ members = [team |-> <<"fred", "baz">>, ops |-> <<"bar">>]
  /\ comments = <<>>
  /\ ProcessInit

\* The Sets over S, each as the sequence of its elements in some
\* insertion order.
OrderedSets(S) ==
  {seq \in SeqsUpTo(S, Cardinality(S)) :
     \A i, j \in 1..Len(seq) : i # j => seq[i] # seq[j]}

ClassifyPaths == {"path/to/file", "other/path/to/file"}
\* The users of the 'File class' tests, and one more.
ClassifyUsers == {"foo", "bar", "baz"}

InitFileUnderReview ==
  /\ input \in [path : ClassifyPaths, approvers : SUBSET ClassifyUsers,
                owners : OrderedSets(ClassifyUsers),
                reviewers : SUBSET ClassifyUsers]
  /\ output = NotCalled
  /\ Quiet

Construct ==
  /\ ~output.called
  /\ output' = Returned(FileUnderReview(input.path, input.approvers,
                                         input.owners, input.reviewers))
  /\ UNCHANGED <<input, observed, gitHubVars, teamCache, runVars>>

\* The comment getter is read on the constructed file.
Comment ==
  /\ output.called
  /\ "comment" \notin DOMAIN output
  /\ output' = [called |-> TRUE, value |-> output.value,
                comment |-> comment(output.value)]
  /\ UNCHANGED <<input, observed, gitHubVars, teamCache, runVars>>

NextFileUnderReview == Construct \/ Comment

SpecFileUnderReview == InitFileUnderReview /\ [][NextFileUnderReview]_vars

\* The rule tables and file names getFileOwners is applied to.
Patterns == {"/foo", "foo/", "*.txt"}
OwnerLists ==
  { <<>>, <<"@bar">>, <<"@bar", "@baz">>, <<"@ghost">>, <<"@ghost", "@bar">>,
    <<"@fred", "@ghost">>, <<"user@example.com", "@org/team">> }
FileNames == {"foo", "foo/test.txt", "foo/bar/test.txt", "not-in-codeowners"}

InitGetFileOwners ==
  /\ input \in [codeowners : SeqsUpTo([path : Patterns, owners : OwnerLists],
                                      MaxRules),
                filename : FileNames]
  /\ output = NotCalled
  /\ Quiet

GetFileOwners ==
  /\ ~output.called
  /\ output' = Returned(getFileOwners(input.codeowners, input.filename))
  /\ UNCHANGED <<input, observed, gitHubVars, teamCache, runVars>>

NextGetFileOwners == GetFileOwners

SpecGetFileOwners == InitGetFileOwners /\ [][NextGetFileOwners]_vars

\* The rule tables and file names getFileOwners is applied to where the
\* patterns are looked at: patterns of a directory and of the files in a
\* directory, and every path of up to three segments.
MatchPatterns == {"foo/*.txt", "bar/*", "foo/", "foo/bar/"}
MatchOwnerLists == {<<"@bar">>, <<"@baz", "@fred">>}
MatchSegments == {"foo", "bar", "test.txt"}
MatchFileNames ==
  {join(names, "/") : names \in SeqsUpTo(MatchSegments, 3) \ {<<>>}}
    \cup {"foo/bar/baz"}

InitMatch ==
  /\ input \in [codeowners : SeqsUpTo([path : MatchPatterns,
                                       owners : MatchOwnerLists], MaxRules)
                               \ {<<>>},
                filename : MatchFileNames]
  /\ output = NotCalled
  /\ Quiet

SpecMatch == InitMatch /\ [][NextGetFileOwners]_vars

\* The characters of the CODEOWNERS texts parseCodeOwnersContent is applied
\* to.
ContentChars == {"a", "b", " ", "\n", "#"}

InitParse ==
  /\ input \in [content : StringsUpTo(ContentChars, MaxContentLen)]
  /\ output = NotCalled
  /\ Quiet

ParseCodeOwnersContent ==
  /\ ~output.called
  /\ output' = Returned(parseCodeOwnersContent(input.content))
  /\ UNCHANGED <<input, observed, gitHubVars, teamCache, runVars>>

NextParse == ParseCodeOwnersContent

SpecParse == InitParse /\ [][NextParse]_vars

\* The files createCommentBody is applied to.
RenderFiles ==
  {FileUnderReview(path, as, os, rs) :
     path \in ClassifyPaths,
     as \in {{}, {"foo"}},
     os \in {<<>>, <<"foo">>, <<"foo", "bar">>, <<"bar", "foo">>},
     rs \in {{}, {"foo"}, {"foo", "bar"}}}

InitCreateCommentBody ==
  /\ input \in [files : SeqsUpTo(RenderFiles, MaxFiles)]
  /\ output = NotCalled
  /\ Quiet

CreateCommentBody ==
  /\ ~output.called
  /\ output' = Returned(createCommentBody(input.files))
  /\ UNCHANGED <<input, observed, gitHubVars, teamCache, runVars>>

NextCreateCommentBody == CreateCommentBody

SpecCreateCommentBody ==
  InitCreateCommentBody /\ [][NextCreateCommentBody]_vars

\* The files of the lists in which every section of the comment is looked
\* at: under each path one file of each approval state.
SectionFiles ==
  {FileUnderReview(path, {"foo"}, os, rs) :
     path \in ClassifyPaths,
     os \in {<<>>, <<"foo", "bar">>, <<"bar">>},
     rs \in {{}, {"bar"}}}

InitCommentSections ==
  /\ input \in [files : SeqsUpTo(SectionFiles, MaxSectionFiles)]
  /\ output = NotCalled
  /\ Quiet

SpecCommentSections == InitCommentSections /\ [][NextCreateCommentBody]_vars

(***************************************************************************)
(* The claims.                                                             *)
(***************************************************************************)

\* C1 (SpecFileUnderReview): a constructed FileUnderReview has exactly one
\* of the four approval states, decided in this order: no owner gives
\* NoOwners; else no owner among the reviewers gives Unapprovable, also when
\* an owner approved; else an owner among the approvers gives Approved; else
\* Pending.  The same sets under any other path give the same state.
C1_ClassifierPrecedence ==
  output.called =>
    LET os == Range(input.owners)
        state == output.value.approval
    IN  /\ state \in FileApprovalState
        /\ os = {} => state = NoOwners
        /\ os # {} /\ os \cap input.reviewers = {} => state = Unapprovable
        /\ os \cap input.reviewers # {} /\ os \cap input.approvers # {}
             => state = Approved
        /\ os \cap input.reviewers # {} /\ os \cap input.approvers = {}
             => state = Pending
        /\ \A path \in ClassifyPaths :
             FileUnderReview(path, input.approvers, input.owners,
                             input.reviewers).approval = state

\* C1 witness: an owner approved but no owner is a reviewer, and the file
\* was classified Unapprovable.
C1_Witness ==
  /\ output.called
  /\ Range(input.owners) \cap input.approvers # {}
  /\ Range(input.owners) \cap input.reviewers = {}
  /\ output.value.approval = Unapprovable

\* The rules of the table that match the file name, by position.
MatchingRules ==
  {i \in 1..Len(input.codeowners) :
     ignores(input.codeowners[i].path, input.filename)}

\* The last rule of the table that matches the file name.
LastMatch ==
  input.codeowners[CHOOSE i \in MatchingRules : \A j \in MatchingRules : i >= j]

\* C2 (SpecGetFileOwners): the result of getFileOwners is that of the last
\* matching rule taken alone, whatever the rules before and after it are: it
\* has no more names than that rule has owner tokens, it is empty when that
\* rule has no owner token, and it is empty when no rule matches.
C2_LastMatchWins ==
  output.called =>
    IF MatchingRules = {} THEN output.value = <<>>
    ELSE /\ output.value = getFileOwners(<<LastMatch>>, input.filename)
         /\ Len(output.value) \in {0, Len(LastMatch.owners)}
         /\ LastMatch.owners = <<>> => output.value = <<>>
         /\ \A i \in 1..Len(output.value) :
              output.value[i] \in {LastMatch.owners[i],
                                   replaceFirst(LastMatch.owners[i], "@")}

\* C2 witness: two rules match the file name, the earlier with owners the
\* later does not have, and the result is the owners of the later.
C2_Witness ==
  /\ output.called
  /\ Cardinality(MatchingRules) = 2
  /\ input.codeowners[1].owners = <<"@bar", "@baz">>
  /\ input.codeowners[2].owners = <<"@bar">>
  /\ output.value = <<"bar">>

\* C3 (SpecGetFileOwners): when the first owner token of the last matching
\* rule is '@ghost', the result is empty, whatever tokens follow it and
\* whatever an earlier matching rule has.
C3_GhostFirst ==
  output.called /\ MatchingRules # {} =>
    (Len(LastMatch.owners) > 0 /\ LastMatch.owners[1] = GHOST
       => output.value = <<>>)

\* C3 witness: the last matching rule is '@ghost @bar', an earlier matching
\* rule has owners, and the result is empty.
C3_Witness ==
  /\ output.called
  /\ Cardinality(MatchingRules) = 2
  /\ input.codeowners[1].owners = <<"@bar", "@baz">>
  /\ input.codeowners[2].owners = <<GHOST, "@bar">>
  /\ output.value = <<>>

\* A token without its leading '@', every other character as it is.
stripSigil(token) ==
  IF token # "" /\ Head(token) = "@" THEN Tail(token) ELSE token

\* C4 (SpecGetFileOwners), as claimed: for a matched rule whose first owner
\* token is not '@ghost', the result has the length and order of the rule's
\* owner tokens, each without its leading '@' and otherwise unchanged.
C4_LeadingSigilOnly ==
  output.called /\ MatchingRules # {} =>
    (~(Len(LastMatch.owners) > 0 /\ LastMatch.owners[1] = GHOST)
       => /\ Len(output.value) = Len(LastMatch.owners)
          /\ \A i \in 1..Len(output.value) :
               output.value[i] = stripSigil(LastMatch.owners[i]))

\* The lines of a text that are neither blank nor a comment: something other
\* than white space is on the line, and the first such character is not '#'.
ruleLines(text) ==
  SelectSeq(split(text, "\n"),
            LAMBDA line : trim(line) # "" /\ Head(trim(line)) # "#")

\* The white-space-delimited fields of a line that is not blank.
RECURSIVE fieldsOf(_)
fieldsOf(line) ==
  LET rest == trimStart(line)
      ends == {i \in 1..Len(rest) : SubSeq(rest, i, i) \in WhiteSpace}
      stop == IF ends = {} THEN Len(rest) + 1
              ELSE CHOOSE i \in ends : \A j \in ends : i <= j
  IN  IF rest = "" THEN <<>>
      ELSE <<SubSeq(rest, 1, stop - 1)>>
             \o fieldsOf(SubSeq(rest, stop, Len(rest)))

\* C5 (SpecParse), as claimed: a text with N lines that are neither blank
\* nor a comment gives N rules in the order of these lines, the i-th with
\* the first field of the i-th such line as its pattern and the other fields
\* as its owners.
C5_OneRulePerRuleLine ==
  output.called =>
    LET lines == ruleLines(input.content)
    IN  /\ Len(output.value) = Len(lines)
        /\ \A i \in 1..Len(lines) :
             /\ output.value[i].path = Head(fieldsOf(lines[i]))
             /\ output.value[i].owners = Tail(fieldsOf(lines[i]))

\* C9 (SpecCreateCommentBody): the body for no file at all is the marker, a
\* newline, the heading, an empty line and the sentence that there are no
\* files, and nothing else.
C9_NoFiles ==
  output.called /\ input.files = <<>> =>
    output.value = COMMENT_HEADER \o "\n" \o "**Review status**" \o "\n\n"
                     \o "There are no files in the PR."

\* C9 witness: createCommentBody was applied to the empty list.
C9_Witness ==
  /\ output.called
  /\ input.files = <<>>
  /\ includesStr(output.value, "There are no files in the PR.")

\* Every file of the list is NoOwners or Approved.
NothingToApprove ==
  \A i \in 1..Len(input.files) :
    input.files[i].approval \notin {Unapprovable, Pending}

\* C10 (SpecCreateCommentBody): the body for a list of files, at least one,
\* none of them Unapprovable or Pending, is the marker, the heading and the
\* sentence that all files are approved; no path, no owner and no details
\* block is in it.
C10_AllApproved ==
  output.called /\ input.files # <<>> /\ NothingToApprove =>
    /\ output.value = COMMENT_HEADER \o "\n" \o "**Review status**" \o "\n\n"
                        \o "All files in the PR are approved."
    /\ ~includesStr(output.value, "<details>")
    /\ \A i \in 1..Len(input.files) :
         /\ ~includesStr(output.value, input.files[i].path)
         /\ \A owner \in Range(input.files[i].owners) :
              ~includesStr(output.value, owner)

\* C10 witness: a file approved by an owner and a file without owners were
\* rendered.
C10_Witness ==
  /\ output.called
  /\ Len(input.files) = 2
  /\ input.files[1].approval = Approved
  /\ input.files[2].approval = NoOwners
  /\ includesStr(output.value, "All files in the PR are approved.")

\* The positions in the log of the calls with one of the names.
CallsOf(names) == {i \in 1..Len(log) : log[i].call \in names}

\* The lookups of the members of a team in this call of run.
LookupsOf(slug) ==
  {i \in CallsOf({"listMembersInOrg"}) : log[i].arg = slug}

\* C6 (Spec): in one call of run, listMembersInOrg is called at most once
\* for a team, and every use of the team in that call gets the member list
\* that is in teamCache, the same list each time.
C6_OneLookupPerTeam ==
  \A slug \in TeamSlugs :
    /\ Cardinality(LookupsOf(slug)) <= 1
    /\ Cardinality(served[slug]) <= 1
    /\ served[slug] # {} =>
         slug \in DOMAIN teamCache /\ served[slug] = {teamCache[slug]}

\* C6 witness: a call of run has used the team 'team' as a requested team
\* and as an owner of two files, the team has changed since it was looked
\* up, and it was looked up once.
C6_Witness ==
  /\ pc = "returned"
  /\ outcome = "done"
  /\ requestedTeams = <<"team">>
  /\ files = <<"foo/bar/baz", "lib/a.ts">>
  /\ Cardinality(LookupsOf("team")) = 1
  /\ members["team"] # teamCache["team"]
  /\ served["team"] = {teamCache["team"]}

Mutations == {"createComment", "updateComment"}

\* The team slugs among the owners of a file of the pull request.
TeamsOwning(filename) ==
  LET owners == getFileOwners(codeOwners, filename)
  IN  {split(owners[i], "/")[2] :
         i \in {j \in 1..Len(owners) : includes(owners[j], "/")}}

\* C7 (Spec): a comment is created or updated only as the last boundary call
\* of run, after the CODEOWNERS file was fetched, the files and the reviews
\* were listed, every team was expanded and every file was classified; and
\* a boundary call that fails is the last call of that run: the run has
\* ended failed, the call is not made again, and no comment was created or
\* updated.
C7_FailureBeforeComment ==
  /\ \A i \in CallsOf(Mutations) :
       /\ i = Len(log)
       /\ \A name \in {"getContent", "listFiles", "listReviews", "listComments"} :
            \E j \in 1..(i - 1) : log[j].call = name /\ log[j].ok
       /\ codeOwners = parseCodeOwnersContent(content)
       /\ files = prFiles
       /\ Len(filesUnderReview) = Len(files)
       /\ \A k \in 1..Len(files) : filesUnderReview[k].path = files[k]
       /\ Range(requestedTeams) \subseteq DOMAIN teamCache
       /\ \A k \in 1..Len(files) : TeamsOwning(files[k]) \subseteq DOMAIN teamCache
  /\ \A i \in 1..Len(log) :
       ~log[i].ok =>
         /\ i = Len(log)
         /\ pc = "returned"
         /\ outcome = "failed"
         /\ failed
         /\ \A j \in CallsOf(Mutations) : j = i

\* C7 witness: a lookup of a team failed after the file, the files and the
\* reviews were read; the run has ended failed.
C7_Witness ==
  /\ pc = "returned"
  /\ failed
  /\ Len(log) = 4
  /\ log[4] = Call("listMembersInOrg", "ops", FALSE)
  /\ CallsOf(Mutations) = {}

\* The comments of the pull request that hold the marker, by position.
MarkerComments == {i \in 1..Len(comments) : includesHeader(comments[i].body)}

UnapprovableHeading ==
  "PR can not be approved, as these files can not be approved by the current reviewers:"
PendingHeading == "Waiting for approval"
ApprovedHeading == "  <summary>Approved files</summary>"
SectionHeadings == <<UnapprovableHeading, PendingHeading, ApprovedHeading>>
SectionStates == <<{Unapprovable}, {Pending}, {NoOwners, Approved}>>

\* The positions of the lines that are equal to the line.
LinesAt(lines, line) == {i \in 1..Len(lines) : lines[i] = line}

\* A line that shows a file: it starts with a glyph.
IsFileLine(line) ==
  Len(line) >= 8 /\ SubSeq(line, 1, 8) \in {"&check; ", "&cross; "}

\* The file lines of the k-th section: those after its heading and before the
\* next heading, in the order of the body; none when the heading is missing.
FileLinesOfSection(lines, k) ==
  LET starts == LinesAt(lines, SectionHeadings[k])
      others == UNION {LinesAt(lines, SectionHeadings[j]) : j \in 1..3}
      start  == CHOOSE i \in starts : TRUE
      later  == {i \in others : i > start}
      stop   == IF later = {} THEN Len(lines) + 1
                ELSE CHOOSE i \in later : \A j \in later : i <= j
  IN  IF starts = {} THEN <<>>
      ELSE SelectSeq(SubSeq(lines, start + 1, stop - 1), IsFileLine)

\* The file lines the k-th section is to have: one for every file of the list
\* in one of the states of the section, in the order of the list, every line
\* but the last with a backslash (a hard line break) at its end.
FileLinesForSection(list, k) ==
  LET bucket == SelectSeq(list, LAMBDA file : file.approval \in SectionStates[k])
  IN  [i \in 1..Len(bucket) |->
         comment(bucket[i]) \o (IF i < Len(bucket) THEN "\\" ELSE "")]

\* C11 (SpecCommentSections): for a list with an Unapprovable or a Pending
\* file, the body starts with the marker and the heading; then come, in this
\* order, the section of the Unapprovable files, the section of the Pending
\* files and the details block of the NoOwners and Approved files.  A section
\* is there exactly when a file is in its bucket; it has one line for each
\* file of its bucket, in the order of the list; so every file of the list
\* has one line in one section.
C11_SectionsInOrder ==
  output.called /\ ~NothingToApprove =>
    LET lines == split(output.value, "\n")
        at == [k \in 1..3 |-> LinesAt(lines, SectionHeadings[k])]
        details == LinesAt(lines, "<details>")
    IN  /\ Len(lines) >= 3
        /\ SubSeq(lines, 1, 3) = <<COMMENT_HEADER, "**Review status**", "">>
        /\ \A k \in 1..3 :
             /\ Cardinality(at[k])
                  = IF FileLinesForSection(input.files, k) = <<>> THEN 0 ELSE 1
             /\ FileLinesOfSection(lines, k) = FileLinesForSection(input.files, k)
        /\ \A j, k \in 1..3 :
             j < k => \A a \in at[j] : \A b \in at[k] : a < b
        /\ Len(SelectSeq(lines, IsFileLine)) = Len(input.files)
        /\ (details # {}) = (FileLinesForSection(input.files, 3) # <<>>)
        /\ \A a \in details :
             /\ a + 1 \in at[3]
             /\ LinesAt(lines, "</details>") = {Len(lines)}

\* C11 witness: an Approved, two Pending and an Unapprovable file, in this
\* order, were rendered; the body has the three sections.
C11_Witness ==
  /\ output.called
  /\ Len(input.files) = 3
  /\ input.files[1].approval = Approved
  /\ input.files[2].approval = Pending
  /\ input.files[3].approval = Unapprovable
  /\ \A k \in 1..3 :
       Len(FileLinesOfSection(split(output.value, "\n"), k)) = 1

\* The part of a file line after the glyph, the path in its code span and
\* the colon.
OwnersPart(line, path) == SubSeq(line, 8 + Len(path) + 5, Len(line))

LastRule == input.codeowners[Len(input.codeowners)]
LastRuleTold ==
  \A i \in 1..(Len(input.codeowners) - 1) :
    input.codeowners[i].owners # LastRule.owners
LastRuleOwns ==
  output.value = [i \in 1..Len(LastRule.owners) |-> stripSigil(LastRule.owners[i])]

\* Patterns of a directory prefix and a wildcard file segment.
WildcardPatterns == {"foo/*.txt", "bar/*"}

C14_DirectoryOwnsDescendants ==
  output.called =>
    /\ (/\ LastRule.path \in {"foo/", "foo/bar/"}
        /\ Len(input.filename) > Len(LastRule.path)
        /\ SubSeq(input.filename, 1, Len(LastRule.path)) = LastRule.path)
         => LastRuleOwns
    /\ (/\ input.codeowners = <<[path |-> "foo/", owners |-> <<"@bar">>]>>
        /\ input.filename = "foo/bar/baz")
         => output.value = <<"bar">>

\* C14 witness: the table 'foo/ @bar' was asked for 'foo/bar/baz' and gave
\* bar.
C14_Witness ==
  /\ output.called
  /\ input.codeowners = <<[path |-> "foo/", owners |-> <<"@bar">>]>>
  /\ input.filename = "foo/bar/baz"
  /\ output.value = <<"bar">>

\* No call of run got further than its start: nothing was asked of GitHub,
\* nothing was fetched or looked up, and the comments are those people
\* wrote, as they wrote them.
NothingDone ==
  /\ pc \in {"idle", "returned"}
  /\ log = <<>>
  /\ teamCache = <<>>
  /\ codeOwners = <<>> /\ files = <<>> /\ filesUnderReview = <<>>
  /\ \A i \in 1..Len(comments) :
       comments[i].by = "user" /\ comments[i].body \in UserCommentBodies

\* C15 (SpecTrigger): on a pull request whose author is not in the allow
\* list, a call of run for a pull_request or pull_request_review event
\* returns without core.setFailed and without a boundary call: no call is in
\* its log, nothing was fetched, listed or looked up, and no comment was
\* created or updated.
C15_SkipIsClean ==
  (/\ input.eventName \in {"pull_request", "pull_request_review"}
   /\ prAuthor \notin authorAllowList)
    => /\ NothingDone
       /\ ~failed
       /\ pc = "returned" => outcome = "skipped"

\* C15 witness: a call of run for a pull request of mallory has returned;
\* somebody has written a comment before.
C15_Witness ==
  /\ input.eventName = "pull_request_review"
  /\ prAuthor = "mallory"
  /\ pc = "returned"
  /\ outcome = "skipped"
  /\ Len(comments) = 1
  /\ Len(reviews) = 2

\* C16 (SpecTrigger): a call of run for an event other than pull_request and
\* pull_request_review calls core.setFailed and returns; no boundary call
\* was made, and no comment was created or updated, whoever the author of
\* the pull request is.
C16_UnexpectedEventFails ==
  input.eventName \notin {"pull_request", "pull_request_review"}
    => /\ NothingDone
       /\ pc = "returned" => failed /\ outcome = "failed"

\* C16 witness: a call of run for a push event, on a pull request of an
\* author in the allow list, has returned failed.
C16_Witness ==
  /\ input.eventName = "push"
  /\ prAuthor = "nomeata"
  /\ pc = "returned"
  /\ failed
  /\ Len(comments) = 1

\* C17 (SpecGetFileOwners), as claimed: when '@ghost' is among the owner
\* tokens of the last matching rule, at whatever position, the result is
\* empty.
C17_GhostAnywhere ==
  output.called /\ MatchingRules # {} =>
    (GHOST \in Range(LastMatch.owners) => output.value = <<>>)

\* C18 (SpecParse), as claimed: a blank line gives no rule, a line whose
\* first character other than white space is '#' gives no rule, and the
\* pattern of every rule is not empty.
C18_NoRuleForBlankOrComment ==
  output.called =>
    LET lines == split(input.content, "\n")
        blank == {i \in 1..Len(lines) : trim(lines[i]) = ""}
        notes == {i \in 1..Len(lines) :
                    trim(lines[i]) # "" /\ Head(trim(lines[i])) = "#"}
    IN  /\ Len(output.value) <= Len(lines) - Cardinality(blank \cup notes)
        /\ \A i \in 1..Len(output.value) :
             /\ output.value[i].path # ""
             /\ Head(output.value[i].path) # "#"

\* C19 (Spec), as claimed: a call of run does not use what an earlier call
\* put into the team cache: every team it uses it has looked up itself, and
\* the members it gets are those the team had at some time during the call,
\* so not before the call asked for the CODEOWNERS file.
C19_CachePerRun ==
  \A slug \in TeamSlugs :
    served[slug] # {} => Cardinality(LookupsOf(slug)) = 1

\* C20 (Spec): in every call of run the approving reviewers are reviewers.
\* So a file that run has classified is Approved exactly when one of its
\* owners is an approving reviewer, and an Unapprovable file has no such
\* owner: no owner is in bold on its line.
C20_ApproversAreReviewers ==
  /\ approvingReviewers \subseteq reviewers
  /\ \A i \in 1..Len(filesUnderReview) :
       LET file == filesUnderReview[i]
       IN  /\ file.approvers = approvingReviewers
           /\ (file.approval = Approved)
                = (Range(file.owners) \cap file.approvers # {})
           /\ file.approval = Unapprovable =>
                /\ Range(file.owners) \cap file.approvers = {}
                /\ ~includesStr(comment(file), "**")

\* C20 witness: a call of run on a pull request with an approving review has
\* classified one file as Unapprovable and the next as Approved.
C20_Witness ==
  /\ pc = "returned"
  /\ outcome = "done"
  /\ approvingReviewers = {"bar"}
  /\ Len(filesUnderReview) = 2
  /\ filesUnderReview[1].approval = Unapprovable
  /\ filesUnderReview[2].approval = Approved

\* C21 (SpecReruns): on a pull request on which only reviews are added, a
\* later call of run never gives a file a worse state than an earlier call
\* gave it: a file that was Approved is Approved, and a file that was
\* Pending is not Unapprovable.  A user with an APPROVED review is an
\* approving reviewer of every later call, whatever reviews the user has
\* submitted since.
C21_ApprovalNeverRegresses ==
  /\ \A i \in 1..Len(observed.before.approvals) :
       /\ observed.before.seen <= observed.now.seen
       /\ Len(observed.now.approvals) = Len(observed.before.approvals)
       /\ observed.before.approvals[i] = Approved
            => observed.now.approvals[i] = Approved
       /\ observed.before.approvals[i] = Pending
            => observed.now.approvals[i] # Unapprovable
  /\ pc \in {"files", "upsert", "returned"} /\ outcome # "failed" =>
       \A i \in 1..Len(reviews) :
         reviews[i].user # NoUser /\ reviews[i].state = APPROVED
           => reviews[i].user \in approvingReviewers

\* C21 witness: a call of run after the APPROVED review of bar gave a file
\* the state Approved; bar then asked for changes, and the next call gave
\* the file the state Approved again.
C21_Witness ==
  /\ reviews = << [user |-> "bar", state |-> APPROVED],
                  [user |-> "bar", state |-> "CHANGES_REQUESTED"] >>
  /\ observed.before.seen = 1
  /\ observed.now.seen = 2
  /\ \E i \in 1..Len(observed.now.approvals) :
       /\ observed.before.approvals[i] = Approved
       /\ observed.now.approvals[i] = Approved

=============================================================================
